---- MODULE Spec2Model ----
(***************************************************************************)
(* Model of the crawl engine of src/app.py (crawl_site and the helpers it  *)
(* calls).  A URL is the triple of the components that the code looks at:  *)
(* netloc (host), path and fragment.  An href is the raw attribute of an   *)
(* anchor: it carries in addition a scheme prefix ("mailto:" is one of the  *)
(* prefixes extract_links refuses) and may have no host (a relative link)  *)
(* and no path.  The network (requests.get, RobotFileParser) is the        *)
(* environment: each call returns one of the outcomes the call can have.   *)
(* The sectioner (extract_body_sections) is a function of the parsed body  *)
(* and has a specification of its own, SectSpec; OrderSpec compares two    *)
(* calls of crawl_site on one site that enumerate link sets differently.   *)
(***************************************************************************)
EXTENDS Integers, Sequences, FiniteSets, TLC

\* ---------------------------------------------------------------- bounds
NPaths == 1
MaxLinks == 2
MaxPagesBound == 2

\* ------------------------------------------------------------ the universe
Hosts == {"a", "b"}
NoHost == ""
NoFrag == ""
Frags == {NoFrag, "f"}
\* path 0 is the empty path, 1..NPaths are "/1", "/2", ...
Paths == 0..NPaths

URL == [host : Hosts \cup {NoHost}, path : Paths, frag : Frags]

\* the anchors a page can carry: relative hrefs to every path, with and without
\* a fragment ("#f" alone is the relative href with the empty path), one
\* absolute href to the host "a" (with the empty path), one to the foreign host
\* "b", a mailto: href, and a href of a scheme that extract_links does not
\* refuse and urljoin does not resolve ("sms:1")
Href == [scheme : {""}, host : {NoHost}, path : Paths, frag : Frags]
          \cup {[scheme |-> "", host |-> "a", path |-> 0, frag |-> NoFrag],
                [scheme |-> "", host |-> "b", path |-> 1, frag |-> NoFrag],
                [scheme |-> "mailto:", host |-> NoHost, path |-> 1, frag |-> NoFrag],
                [scheme |-> "sms:", host |-> NoHost, path |-> 1, frag |-> NoFrag]}

\* the seeds: on host "a", or without a host (an invalid seed)
Seeds == {u \in URL : u.host \in {"a", NoHost}}

\* a fetched document, as far as the crawl loop looks at it: its anchors
Html == {H \in SUBSET Href : Cardinality(H) <= MaxLinks}

\* ---------------------------------------------------------------- helpers
Contains(s, x) == \E i \in DOMAIN s : s[i] = x

\* the orders in which a Python set can be iterated
SeqsOf(S) == {s \in [1..Cardinality(S) -> S] : \A i, j \in DOMAIN s : i # j => s[i] # s[j]}

\* urljoin(base_root, href) for base_root = scheme://netloc (no path):
\* a href without scheme and host takes the base's host, a href with a host
\* keeps it, and a href of another scheme is returned as it is, without host.
urljoin(base_netloc, h) ==
  [host |-> IF h.host = NoHost /\ h.scheme = "" THEN base_netloc ELSE h.host,
   path |-> h.path,
   frag |-> h.frag]

\* href.split("#")[0]
StripHrefFragment(h) == [h EXCEPT !.frag = NoFrag]

\* what is left of the href is the empty string
EmptyHref(h) == h.scheme = "" /\ h.host = NoHost /\ h.path = 0 /\ h.frag = NoFrag

extract_links(hrefs, base_netloc) ==
  {urljoin(base_netloc, StripHrefFragment(h)) :
     h \in {g \in hrefs : /\ ~EmptyHref(StripHrefFragment(g))
                          /\ g.scheme # "mailto:"}}

\* the filter that lets every link through
is_same_domain_always(base_netloc, link) == TRUE

is_same_domain(base_netloc, link) ==
  IF link.host = NoHost THEN TRUE ELSE link.host = base_netloc

\* parsed_l._replace(fragment="").geturl()
norm(link) == [link EXCEPT !.frag = NoFrag]

\* reading to_visit[0] without removing it
PopKeepsHead(q) == q

\* to_visit.pop(0) leaves the tail
Pop(q) == Tail(q)

\* the loop over the links with the test against seen left out
RECURSIVE EnqueueLinksNoSeenCheck(_, _, _, _)
EnqueueLinksNoSeenCheck(order, base_netloc, seenSet, queue) ==
  IF order = <<>> THEN queue
  ELSE LET link == Head(order)
           n == norm(link)
           q2 == IF is_same_domain(base_netloc, link) /\ ~Contains(queue, n)
                 THEN Append(queue, n)
                 ELSE queue
       IN EnqueueLinksNoSeenCheck(Tail(order), base_netloc, seenSet, q2)

\* the loop over the links with the test against to_visit left out
RECURSIVE EnqueueLinksNoQueueCheck(_, _, _, _)
EnqueueLinksNoQueueCheck(order, base_netloc, seenSet, queue) ==
  IF order = <<>> THEN queue
  ELSE LET link == Head(order)
           n == norm(link)
           q2 == IF is_same_domain(base_netloc, link) /\ n \notin seenSet
                 THEN Append(queue, n)
                 ELSE queue
       IN EnqueueLinksNoQueueCheck(Tail(order), base_netloc, seenSet, q2)

\* the loop over the links with to_visit.insert(0, norm) for the append
RECURSIVE EnqueueLinksAtFront(_, _, _, _)
EnqueueLinksAtFront(order, base_netloc, seenSet, queue) ==
  IF order = <<>> THEN queue
  ELSE LET link == Head(order)
           n == norm(link)
           q2 == IF /\ is_same_domain(base_netloc, link)
                    /\ n \notin seenSet
                    /\ ~Contains(queue, n)
                 THEN <<n>> \o queue
                 ELSE queue
       IN EnqueueLinksAtFront(Tail(order), base_netloc, seenSet, q2)

\* the loop over the links with a break after the first append
RECURSIVE EnqueueLinksFirstOnly(_, _, _, _)
EnqueueLinksFirstOnly(order, base_netloc, seenSet, queue) ==
  IF order = <<>> THEN queue
  ELSE LET link == Head(order)
           n == norm(link)
       IN  IF /\ is_same_domain(base_netloc, link)
              /\ n \notin seenSet
              /\ ~Contains(queue, n)
             THEN Append(queue, n)
             ELSE EnqueueLinksFirstOnly(Tail(order), base_netloc, seenSet, queue)

\* the loop over the links of a page (lines 214-220), in the order given
RECURSIVE EnqueueLinks(_, _, _, _)
EnqueueLinks(order, base_netloc, seenSet, queue) ==
  IF order = <<>> THEN queue
  ELSE LET link == Head(order)
           n == norm(link)
           q2 == IF /\ is_same_domain(base_netloc, link)
                    /\ n \notin seenSet
                    /\ ~Contains(queue, n)
                 THEN Append(queue, n)
                 ELSE queue
       IN EnqueueLinks(Tail(order), base_netloc, seenSet, q2)

\* the URLs that EnqueueLinks adds to the queue, in order
Added(old, new) == SubSeq(new, Len(old) + 1, Len(new))

\* ------------------------------------------------------------------ state
VARIABLES
  start_url,    \* argument of crawl_site
  max_pages,    \* argument of crawl_site
  base_netloc,  \* parsed.netloc
  rp,           \* "unset" before line 166, then "None" or "policy"
  to_visit,     \* the frontier
  seen,         \* the visited set
  results,      \* the records appended so far
  url,          \* the URL being processed
  links,        \* the set extract_links returned for the last page
  pc,           \* position in crawl_site
  \* the calls crawl_site has made and what became of each dequeued URL
  robots_reads, \* number of rp.read() calls
  can_fetch,    \* answers rp.can_fetch has given, per URL
  fetched,      \* arguments of the fetch_url calls, in order
  dequeued,     \* values popped from to_visit, in order
  enqueued,     \* values put in to_visit, in order
  outcome,      \* terminal state of each processed URL, in order
  sleeps,       \* number of time.sleep calls
  \* one call of extract_body_sections
  body,         \* the children of the body of the parsed document
  sections,     \* the list the call returned
  spc,          \* "idle", or "call" before and "returned" after the call
  \* two calls of crawl_site on one site
  site,         \* the link set of every page of the site
  down,         \* the pages for which fetch_url returns ""
  run_asc,      \* what the call that enumerates link sets in ascending order left
  run_desc      \* the same for the call that enumerates them in descending order

\* the variables of the crawl loop
crawlvars == <<start_url, max_pages, base_netloc, rp, to_visit, seen, results, url,
               links, pc, robots_reads, can_fetch, fetched, dequeued, enqueued,
               outcome, sleeps>>

\* the variables of the sectioner
sectvars == <<body, sections, spc>>

\* a call of crawl_site that has not been made
NotCalled == [returned |-> FALSE, results |-> <<>>, to_visit |-> <<>>]

\* the variables of the comparison of two calls
ordvars == <<site, down, run_asc, run_desc>>

vars == <<crawlvars, sectvars, ordvars>>

NoUrl == [host |-> NoHost, path |-> 0, frag |-> NoFrag]

Init ==
  /\ start_url \in Seeds
  /\ max_pages \in 1..MaxPagesBound
  /\ base_netloc = start_url.host
  /\ rp = "unset"
  /\ to_visit = <<>>
  /\ seen = {}
  /\ results = <<>>
  /\ url = NoUrl
  /\ links = {}
  /\ pc = "robots"
  /\ robots_reads = 0
  /\ can_fetch = <<>>
  /\ fetched = <<>>
  /\ dequeued = <<>>
  /\ enqueued = <<>>
  /\ outcome = <<>>
  /\ sleeps = 0
  /\ body = <<>>
  /\ sections = <<>>
  /\ spc = "idle"
  /\ site = <<>>
  /\ down = {}
  /\ run_asc = NotCalled
  /\ run_desc = NotCalled

\* ---------------------------------------------------------------- actions
\* lines 40-49: the parser, or None when anything in the try block raised
allowed_by_robots(raised) == IF raised THEN "None" ELSE "policy"

\* line 166: rp = allowed_by_robots(start_url).  rp.read() is called once; if
\* it (or urlparse) raises the function returns None, otherwise the parser.
\* A seed without a host gives the robots URL "://robots.txt", which raises.
FetchRobots ==
  /\ UNCHANGED <<sectvars, ordvars>>
  /\ pc = "robots"
  /\ robots_reads' = robots_reads + 1
  /\ \E raised \in BOOLEAN :
       /\ (start_url.host = NoHost) => raised
       /\ rp' = allowed_by_robots(raised)
  /\ to_visit' = <<start_url>>
  /\ enqueued' = <<start_url>>
  /\ seen' = {}
  /\ results' = <<>>
  /\ pc' = "loop"
  /\ UNCHANGED <<start_url, max_pages, base_netloc, url, links, can_fetch,
                 fetched, dequeued, outcome, sleeps>>

\* the loop condition with the budget test off by one
LoopGuardOffByOne == to_visit # <<>> /\ Len(results) <= max_pages

\* the loop condition without the budget test
LoopGuardNoBudget == to_visit # <<>>

\* line 171: the loop condition
LoopGuard == to_visit # <<>> /\ Len(results) < max_pages

\* lines 172-175: pop the head; a URL already in seen is dropped
Dequeue ==
  /\ UNCHANGED <<sectvars, ordvars>>
  /\ pc = "loop"
  /\ LoopGuard
  /\ url' = Head(to_visit)
  /\ to_visit' = Pop(to_visit)
  /\ dequeued' = Append(dequeued, Head(to_visit))
  /\ IF Head(to_visit) \in seen
       THEN /\ pc' = "loop"
            /\ seen' = seen
            /\ outcome' = Append(outcome, "Skipped")
       ELSE /\ pc' = "robotscheck"
            /\ seen' = seen \cup {Head(to_visit)}
            /\ outcome' = outcome
  /\ UNCHANGED <<start_url, max_pages, base_netloc, rp, results, links,
                 robots_reads, can_fetch, fetched, enqueued, sleeps>>

\* allowed without the robots check
AllowedAlways(policy, answer) == TRUE

\* allowed when errors deny: no policy, or a query that raises, blocks the URL
AllowedFailClosed(policy, answer) == policy = "policy" /\ answer = "allow"

\* lines 178-184: the value of allowed, from the answer of rp.can_fetch
Allowed(policy, answer) ==
  IF policy = "policy" THEN (IF answer = "raise" THEN TRUE ELSE answer = "allow")
  ELSE TRUE

\* lines 178-187: the robots check of the dequeued URL; a denial continues.
\* The policy is a fixed function of the URL that the run learns query by
\* query: can_fetch keeps the answers given, and a URL asked again gets the
\* answer it got before.  can_fetch parses the URL again and raises only for
\* a URL it cannot parse: the URLs of the hosts "a" and "b" parse, the URL
\* without a host stands for one that does not.
RobotsCheck ==
  /\ UNCHANGED <<sectvars, ordvars>>
  /\ pc = "robotscheck"
  /\ \E answer \in {"allow", "deny", "raise"} :
       /\ (url \in DOMAIN can_fetch) => answer = can_fetch[url]
       /\ can_fetch' = IF rp = "policy"
                         THEN [u \in DOMAIN can_fetch \cup {url} |->
                                 IF u = url THEN answer ELSE can_fetch[u]]
                         ELSE can_fetch
       /\ (rp # "policy") => answer = "allow"
       /\ (answer = "raise") => url.host = NoHost
       /\ IF Allowed(rp, answer)
            THEN /\ pc' = "fetch"
                 /\ outcome' = outcome
            ELSE /\ pc' = "loop"
                 /\ outcome' = Append(outcome, "BlockedByRobots")
  /\ UNCHANGED <<start_url, max_pages, base_netloc, rp, to_visit, seen, results,
                 url, links, robots_reads, fetched, dequeued, enqueued, sleeps>>

\* lines 205-210: the record of a page (title and sections are not modelled here)
PageResult(u) == [url |-> u, path |-> u.path]

\* a failed fetch that ends the run
FetchFailedAborts ==
  /\ UNCHANGED <<sectvars, ordvars>>
  /\ pc = "fetch"
  /\ fetched' = Append(fetched, url)
  /\ outcome' = Append(outcome, "Failed")
  /\ pc' = "done"
  /\ UNCHANGED <<start_url, max_pages, base_netloc, rp, to_visit, seen, results,
                 url, links, robots_reads, can_fetch, dequeued, enqueued, sleeps>>

\* lines 31-38 and 189-191: fetch_url returns None (the request raised, or the
\* status was not 2xx) or the text, and an empty text is dropped like None.
\* A URL without a host cannot be requested.  The memo of st.cache_data is not
\* modelled: it is keyed by the URL string and a run passes every URL string
\* to fetch_url at most once (C6), so no call of a run is answered from it.
FetchFailed ==
  /\ UNCHANGED <<sectvars, ordvars>>
  /\ pc = "fetch"
  /\ fetched' = Append(fetched, url)
  /\ outcome' = Append(outcome, "Failed")
  /\ pc' = "loop"
  /\ UNCHANGED <<start_url, max_pages, base_netloc, rp, to_visit, seen, results,
                 url, links, robots_reads, can_fetch, dequeued, enqueued, sleeps>>

\* lines 189-220: fetch_url returns a text with the anchors hrefs; the record
\* is appended and the links are enqueued, in one of the orders in which the
\* set links can be iterated
FetchOk ==
  /\ UNCHANGED <<sectvars, ordvars>>
  /\ pc = "fetch"
  /\ url.host # NoHost
  /\ fetched' = Append(fetched, url)
  /\ results' = Append(results, PageResult(url))
  /\ outcome' = Append(outcome, "Ok")
  /\ \E found \in {extract_links(hrefs, base_netloc) : hrefs \in Html} :
       /\ links' = found
       /\ \E order \in SeqsOf(found) :
            /\ to_visit' = EnqueueLinks(order, base_netloc, seen, to_visit)
            /\ enqueued' = enqueued \o Added(to_visit, to_visit')
  /\ pc' = "sleep"
  /\ UNCHANGED <<start_url, max_pages, base_netloc, rp, seen, url,
                 robots_reads, can_fetch, dequeued, sleeps>>

\* line 222: time.sleep(0.2).  links is not read again before line 213 assigns
\* it for the next page: its value is dropped here.
Sleep ==
  /\ UNCHANGED <<sectvars, ordvars>>
  /\ pc = "sleep"
  /\ sleeps' = sleeps + 1
  /\ links' = {}
  /\ pc' = "loop"
  /\ UNCHANGED <<start_url, max_pages, base_netloc, rp, to_visit, seen, results,
                 url, robots_reads, can_fetch, fetched, dequeued, enqueued,
                 outcome>>

\* line 224: return results
Return ==
  /\ UNCHANGED <<sectvars, ordvars>>
  /\ pc = "loop"
  /\ ~LoopGuard
  /\ pc' = "done"
  /\ UNCHANGED <<start_url, max_pages, base_netloc, rp, to_visit, seen, results,
                 url, links, robots_reads, can_fetch, fetched, dequeued, enqueued,
                 outcome, sleeps>>

Next == FetchRobots \/ Dequeue \/ RobotsCheck \/ FetchFailed \/ FetchOk \/ Sleep \/ Return

Spec == Init /\ [][Next]_vars

\* every call returns, so crawl_site always takes its next step
FairSpec == Spec /\ WF_vars(Next)

\* ---------------------------------------------------------- the sectioner
\* A text is the sequence of its words (runs of whitespace are single
\* separators, so a text that is empty or all whitespace is <<>>); the line
\* breaks the code inserts are the words "\n" and "\n\n".
MaxChildren == 4

Leaf(t, x) == [tag |-> t, text |-> x, inner |-> <<>>]

Elem(t, x, in) == [tag |-> t, text |-> x, inner |-> in]

\* the nodes a body can have as direct children: a text node, a whitespace
\* text node, headings of level 1, 4 and 5, a paragraph, an empty paragraph,
\* a div holding text, a nav and a script, a list of three items of which one
\* is empty, a nav, a form, and a script
Nodes ==
  { Leaf("#text", <<"t">>),
    Leaf("#text", <<>>),
    Leaf("h1", <<"A">>),
    Leaf("h4", <<"B">>),
    Leaf("h5", <<"H">>),
    Leaf("p", <<"x">>),
    Leaf("p", <<>>),
    Elem("div", <<"y">>, <<Leaf("nav", <<"M">>), Leaf("script", <<"S">>)>>),
    Elem("ul", <<>>, <<Leaf("li", <<"i">>), Leaf("li", <<>>), Leaf("li", <<"j">>)>>),
    Leaf("nav", <<"N">>),
    Leaf("form", <<"F">>),
    Leaf("script", <<"S">>) }

\* the children of the body of a parsed document
Bodies == UNION {[1..n -> Nodes] : n \in 0..MaxChildren}

RECURSIVE Concat(_)
Concat(ss) == IF ss = <<>> THEN <<>> ELSE Head(ss) \o Concat(Tail(ss))

\* sep.join(lines)
RECURSIVE Join(_, _)
Join(lines, sep) ==
  IF lines = <<>> THEN <<>>
  ELSE IF Len(lines) = 1 THEN lines[1]
  ELSE lines[1] \o <<sep>> \o Join(Tail(lines), sep)

IsBad(n) == n.tag \in {"script", "style", "noscript", "iframe"}

_clean_tag(children) ==
  LET kept == SelectSeq(children, LAMBDA n : ~IsBad(n))
  IN  [i \in DOMAIN kept |->
         [kept[i] EXCEPT !.inner = SelectSeq(kept[i].inner, LAMBDA n : ~IsBad(n))]]

\* elem.get_text(separator=" ", strip=True) with whitespace collapsed
get_text(elem) ==
  elem.text \o Concat([i \in DOMAIN elem.inner |-> elem.inner[i].text])

_elem_to_text(elem) ==
  IF elem.tag \in {"ul", "ol"}
    THEN LET lis == SelectSeq(elem.inner, LAMBDA n : n.tag = "li" /\ get_text(n) # <<>>)
         IN  Join([i \in DOMAIN lis |-> <<"-">> \o get_text(lis[i])], "\n")
    ELSE get_text(elem)

IsTag(child) == child.tag # "#text"

IsHeading(tag_name) == tag_name \in {"h1", "h2", "h3", "h4"}

ContentTags == {"p", "div", "section", "article", "ul", "ol", "address"}

SkipTagsNoForm == {"nav", "footer", "header", "script", "style"}

SkipTags == {"nav", "footer", "header", "form", "script", "style"}

AppendLineAlways(current_lines, txt) == Append(current_lines, txt)

\* if txt: current_lines.append(txt)
AppendLine(current_lines, txt) ==
  IF txt # <<>> THEN Append(current_lines, txt) ELSE current_lines

FlushAlways(secs, current_heading, current_lines) ==
  Append(secs, [heading |-> current_heading,
                content |-> Join(SelectSeq(current_lines, LAMBDA l : l # <<>>), "\n\n")])

\* if current_lines: sections.append({heading, "\n\n".join(non-empty lines)})
Flush(secs, current_heading, current_lines) ==
  IF current_lines # <<>>
    THEN Append(secs, [heading |-> current_heading,
                       content |-> Join(SelectSeq(current_lines, LAMBDA l : l # <<>>), "\n\n")])
    ELSE secs

\* the loop over body.children and the flush after it
RECURSIVE Traverse(_, _, _, _)
Traverse(children, secs, current_heading, current_lines) ==
  IF children = <<>> THEN Flush(secs, current_heading, current_lines)
  ELSE LET child == Head(children)
           rest == Tail(children)
       IN  IF ~IsTag(child)
             THEN Traverse(rest, secs, current_heading, AppendLine(current_lines, child.text))
           ELSE IF IsHeading(child.tag)
             THEN Traverse(rest, Flush(secs, current_heading, current_lines),
                           get_text(child), <<>>)
           ELSE IF child.tag \in ContentTags
             THEN Traverse(rest, secs, current_heading,
                           AppendLine(current_lines, _elem_to_text(child)))
           ELSE IF child.tag \in SkipTags
             THEN Traverse(rest, secs, current_heading, current_lines)
           ELSE Traverse(rest, secs, current_heading,
                         AppendLine(current_lines, get_text(child)))

EmptyIntro == <<[heading |-> <<"Intro">>, content |-> <<>>]>>

extract_body_sections_no_fallback(children) ==
  Traverse(_clean_tag(children), <<>>, <<"Intro">>, <<>>)

extract_body_sections(children) ==
  LET secs == Traverse(_clean_tag(children), <<>>, <<"Intro">>, <<>>)
  IN  IF secs = <<>> THEN EmptyIntro ELSE secs

\* the crawl loop does not run while the sectioner is examined
CrawlIdle ==
  /\ start_url = NoUrl /\ max_pages = 1 /\ base_netloc = NoHost /\ rp = "unset"
  /\ to_visit = <<>> /\ seen = {} /\ results = <<>> /\ url = NoUrl /\ links = {}
  /\ pc = "idle" /\ robots_reads = 0 /\ can_fetch = <<>> /\ fetched = <<>>
  /\ dequeued = <<>> /\ enqueued = <<>> /\ outcome = <<>> /\ sleeps = 0

SectInit ==
  /\ CrawlIdle
  /\ body \in Bodies
  /\ sections = <<>>
  /\ spc = "call"
  /\ site = <<>> /\ down = {} /\ run_asc = NotCalled /\ run_desc = NotCalled

\* sections = extract_body_sections(html), stored in the page's record
Sectionize ==
  /\ spc = "call"
  /\ sections' = extract_body_sections(body)
  /\ spc' = "returned"
  /\ UNCHANGED <<body, crawlvars, ordvars>>

SectNext == Sectionize

SectSpec == SectInit /\ [][SectNext]_vars

\* ------------------------------------------- two calls of crawl_site on a site
\* The site is fixed: its pages are the URLs of host "a" with the paths
\* 0..NSitePaths, every page carries at most two links to pages of the site,
\* robots.txt cannot be read (every URL is allowed), and the last page may be
\* down.  The two calls differ only in the order in which the link set of a
\* page is enumerated.
NSitePaths == 2

SitePages == {[host |-> "a", path |-> p, frag |-> NoFrag] : p \in 0..NSitePaths}

SiteSeed == [host |-> "a", path |-> 0, frag |-> NoFrag]

LinkSets == {S \in SUBSET SitePages : \E x, y \in SitePages : S \subseteq {x, y}}

\* one of the orders in which the set can be enumerated
Enumerate(S, dir) ==
  CHOOSE s \in SeqsOf(S) :
    \A i, j \in DOMAIN s :
      i < j => IF dir = "asc" THEN s[i].path < s[j].path ELSE s[i].path > s[j].path

\* the loop of crawl_site (lines 171-222) with rp = None, from the state
\* (queue, seenSet, res) to the return; the value is what the call leaves
RECURSIVE CrawlLoop(_, _, _, _, _, _, _)
CrawlLoop(pages, failing, budget, dir, queue, seenSet, res) ==
  IF ~(queue # <<>> /\ Len(res) < budget)
    THEN [returned |-> TRUE, results |-> res, to_visit |-> queue]
  ELSE LET u == Head(queue)
           rest == Pop(queue)
       IN  IF u \in seenSet
             THEN CrawlLoop(pages, failing, budget, dir, rest, seenSet, res)
           ELSE IF u \in failing
             THEN CrawlLoop(pages, failing, budget, dir, rest, seenSet \cup {u}, res)
           ELSE CrawlLoop(pages, failing, budget, dir,
                          EnqueueLinks(Enumerate(pages[u], dir), u.host,
                                       seenSet \cup {u}, rest),
                          seenSet \cup {u}, Append(res, PageResult(u)))

crawl_site(pages, failing, seed, budget, dir) ==
  CrawlLoop(pages, failing, budget, dir, <<seed>>, {}, <<>>)

OrderInit ==
  /\ start_url = SiteSeed /\ max_pages \in 1..MaxPagesBound
  /\ base_netloc = SiteSeed.host /\ rp = "None"
  /\ to_visit = <<>> /\ seen = {} /\ results = <<>> /\ url = NoUrl /\ links = {}
  /\ pc = "idle" /\ robots_reads = 0 /\ can_fetch = <<>> /\ fetched = <<>>
  /\ dequeued = <<>> /\ enqueued = <<>> /\ outcome = <<>> /\ sleeps = 0
  /\ body = <<>> /\ sections = <<>> /\ spc = "idle"
  /\ site \in [SitePages -> LinkSets]
  /\ down \in {{}, {[host |-> "a", path |-> NSitePaths, frag |-> NoFrag]}}
  /\ run_asc = NotCalled
  /\ run_desc = NotCalled

CrawlAscending ==
  /\ run_asc = NotCalled
  /\ run_asc' = crawl_site(site, down, start_url, max_pages, "asc")
  /\ UNCHANGED <<crawlvars, sectvars, site, down, run_desc>>

CrawlDescending ==
  /\ run_desc = NotCalled
  /\ run_desc' = crawl_site(site, down, start_url, max_pages, "desc")
  /\ UNCHANGED <<crawlvars, sectvars, site, down, run_asc>>

OrderNext == CrawlAscending \/ CrawlDescending

OrderSpec == OrderInit /\ [][OrderNext]_vars

\* ------------------------------------------------------------- properties
AtLoopHead == pc \in {"loop", "done"}

IsOk(i) == outcome[i] = "Ok"

NumOk == Cardinality({i \in DOMAIN outcome : IsOk(i)})

NoRepeats(s) == \A i, j \in DOMAIN s : i # j => s[i] # s[j]

\* C1: in every reachable state the number of records in results is at most
\* max_pages, whatever the seed, the links and the failures and denials.
C1_ResultsWithinBudget == Len(results) <= max_pages

\* the run ended because the budget was reached, with URLs still queued
C1_Witness == pc = "done" /\ Len(results) = max_pages /\ to_visit # <<>>

\* C2: no two records of one run have the same normalized (fragment-stripped)
\* URL, also when the seed carries a fragment.
C2_NoDuplicateNormalizedUrl ==
  \A i, j \in DOMAIN results :
    i # j => norm(results[i].url) # norm(results[j].url)

LastOutcomeIs(o) == outcome # <<>> /\ outcome[Len(outcome)] = o

Denies(u) == rp = "policy" /\ u \in DOMAIN can_fetch /\ can_fetch[u] = "deny"

\* robots.txt is read once and before any page; no fetched URL is denied
C4_NoDeniedFetch ==
  /\ robots_reads <= 1
  /\ (pc # "robots") => (robots_reads = 1 /\ rp # "unset")
  /\ (fetched # <<>>) => pc # "robots"
  /\ \A i \in DOMAIN fetched : ~Denies(fetched[i])
  /\ (rp = "policy") => \A i \in DOMAIN fetched : fetched[i] \in DOMAIN can_fetch
  /\ (pc = "fetch") => ~Denies(url)

\* the step that denies url leaves the frontier as it is and returns to the
\* loop head without a fetch
C4_DenialStep ==
  (pc = "robotscheck" /\ rp = "policy" /\ url \in DOMAIN can_fetch'
     /\ can_fetch'[url] = "deny")
  => (/\ to_visit' = to_visit
      /\ enqueued' = enqueued
      /\ fetched' = fetched
      /\ results' = results
      /\ pc' = "loop")

\* C4: the robots policy gates every page fetch: robots.txt is read once,
\* before the first page fetch; no URL is passed to fetch_url while a policy
\* is present and denies it; a denied URL adds nothing to the frontier; and
\* after a denial the loop goes on to the next queued URL.
C4_RobotsGatesEveryFetch ==
  /\ []C4_NoDeniedFetch
  /\ [][C4_DenialStep]_vars
  /\ ((pc = "loop" /\ LoopGuard /\ LastOutcomeIs("BlockedByRobots"))
        ~> (pc = "robotscheck"))

\* a URL was denied and a URL dequeued after it was fetched and recorded
C4_Witness ==
  \E i, j \in DOMAIN outcome :
    i < j /\ outcome[i] = "BlockedByRobots" /\ outcome[j] = "Ok"

\* the step in which fetch_url fails leaves frontier, visited set and records
\* as they are and returns to the loop head
C5_FailStep ==
  (pc = "fetch" /\ Len(outcome') = Len(outcome) + 1
     /\ outcome'[Len(outcome')] = "Failed")
  => (/\ to_visit' = to_visit
      /\ enqueued' = enqueued
      /\ results' = results
      /\ seen' = seen
      /\ pc' = "loop")

\* C5: a failed fetch is isolated: the frontier gains no URL, the records
\* are unchanged, and the loop continues with the remaining frontier.
C5_FetchFailureIsolated ==
  /\ [][C5_FailStep]_vars
  /\ ((pc = "loop" /\ LoopGuard /\ LastOutcomeIs("Failed"))
        ~> (pc = "robotscheck"))

\* a fetch failed and a URL dequeued after it was fetched and recorded
C5_Witness ==
  \E i, j \in DOMAIN outcome :
    i < j /\ outcome[i] = "Failed" /\ outcome[j] = "Ok"

\* C6: each URL string is put in the frontier at most once, hence dequeued
\* and fetched at most once, and seen only grows.
C6_EnqueuedAtMostOnce ==
  /\ [](NoRepeats(enqueued) /\ NoRepeats(dequeued) /\ NoRepeats(fetched))
  /\ [][seen \subseteq seen']_vars

\* a page links to a URL that failed or was blocked earlier in the run
C6_Witness ==
  /\ pc = "sleep"
  /\ \E l \in links : \E i \in DOMAIN outcome :
       /\ is_same_domain(base_netloc, l)
       /\ dequeued[i] = norm(l)
       /\ outcome[i] \in {"Failed", "BlockedByRobots"}

\* the position in crawl_site, counted down to the return
pcRank ==
  CASE pc = "robots" -> 5
    [] pc = "robotscheck" -> 4
    [] pc = "fetch" -> 3
    [] pc = "sleep" -> 2
    [] pc = "loop" -> 1
    [] pc = "done" -> 0

\* what is left to do: the budget, then the queue, then the position
Measure ==
  <<IF pc = "robots" THEN 1 ELSE 0, max_pages - Len(results), Len(to_visit), pcRank>>

LexLess(a, b) ==
  \E k \in DOMAIN a : a[k] < b[k] /\ \A j \in 1..(k - 1) : a[j] = b[j]

C8_DelayAfterEveryUrl ==
  /\ AtLoopHead => sleeps = Len(dequeued)
  /\ Len(fetched) <= sleeps + 1

NumFailed == Cardinality({i \in DOMAIN outcome : outcome[i] = "Failed"})

C10_QueryRaisedReached ==
  /\ rp = "policy"
  /\ \E i \in DOMAIN outcome :
       can_fetch[dequeued[i]] = "raise" /\ Contains(fetched, dequeued[i])

\* C12 as stated: for a seed without a host nothing is requested and the
\* crawl loop is not entered.
C12_InvalidSeedNotCrawled ==
  (start_url.host = NoHost) =>
    (robots_reads = 0 /\ dequeued = <<>> /\ fetched = <<>>)

\* the place of x in a sequence without repeats
Pos(s, x) == CHOOSE i \in DOMAIN s : s[i] = x

\* C14: the frontier is FIFO: the URLs are dequeued in the order in which
\* they were enqueued, seed first, and the records are in dequeue order.
C14_FrontierIsFifo ==
  /\ enqueued = dequeued \o to_visit
  /\ (dequeued # <<>>) => dequeued[1] = start_url
  /\ \A i \in DOMAIN results : Contains(dequeued, results[i].url)
  /\ \A i, j \in DOMAIN results :
       i < j => Pos(enqueued, results[i].url) < Pos(enqueued, results[j].url)

\* the second page has put a URL behind one that was already queued
C14_Witness ==
  pc = "sleep" /\ Len(dequeued) >= 2 /\ Len(to_visit) >= 2

\* C19: at the loop head the frontier holds no URL twice and no URL of seen,
\* so the test of line 173 never sends a dequeued URL back to the loop head.
C19_FrontierDisjointFromSeen ==
  /\ (pc = "loop") =>
       /\ NoRepeats(to_visit)
       /\ \A i \in DOMAIN to_visit : to_visit[i] \notin seen
  /\ \A i \in DOMAIN outcome : outcome[i] # "Skipped"

\* URLs are queued for the next loop head and the page linked to a URL of seen
C19_Witness ==
  /\ pc = "sleep"
  /\ to_visit # <<>>
  /\ \E l \in links : is_same_domain(base_netloc, l) /\ norm(l) \in seen

\* C13 as stated: every URL put in the frontier after the seed, every URL
\* fetched and every URL recorded has exactly the seed's host.
C13_OnlySeedHost ==
  /\ \A i \in 2..Len(enqueued) : enqueued[i].host = base_netloc
  /\ \A i \in DOMAIN fetched : fetched[i].host = base_netloc
  /\ \A i \in DOMAIN results : results[i].url.host = base_netloc

\* C13 as amended: every URL put in the frontier after the seed, and hence
\* every URL fetched, has exactly the seed's host or no host at all; a link
\* with another host is never enqueued; every recorded URL has the seed's
\* host.
C13_SeedHostOrNoHost ==
  /\ \A i \in 2..Len(enqueued) : enqueued[i].host \in {base_netloc, NoHost}
  /\ \A i \in DOMAIN fetched : fetched[i].host \in {base_netloc, NoHost}
  /\ \A l \in links :
       (l.host \notin {base_netloc, NoHost}) => ~Contains(enqueued, norm(l))
  /\ \A i \in DOMAIN results : results[i].url.host = base_netloc

\* a page of a seed with a host carried a link to another host and a link
\* without a host, and the latter was enqueued
C13_Witness ==
  /\ base_netloc # NoHost
  /\ \E l \in links : l.host \notin {base_netloc, NoHost}
  /\ \E l \in links : l.host = NoHost /\ Contains(enqueued, norm(l))

\* ------------------------------------------------ properties of the sectioner
Words(text) == {text[i] : i \in DOMAIN text}

RemovedTags == {"script", "style", "noscript", "iframe"}

BoilerplateTags == {"nav", "footer", "header", "form"}

HeadingTags == {"h1", "h2", "h3", "h4"}

\* the text of a node that a reader sees: its own words and those of the nodes
\* inside it, scripts and the like left out
VisibleText(n) ==
  n.text \o Concat([i \in DOMAIN n.inner |->
                      IF n.inner[i].tag \in RemovedTags THEN <<>> ELSE n.inner[i].text])

\* one line "- item" per list item that has text, separated by newlines
RECURSIVE BulletLines(_)
BulletLines(items) ==
  IF items = <<>> THEN <<>>
  ELSE LET more == BulletLines(Tail(items))
       IN  IF Head(items).tag # "li" \/ Head(items).text = <<>> THEN more
           ELSE IF more = <<>> THEN <<"-">> \o Head(items).text
           ELSE <<"-">> \o Head(items).text \o <<"\n">> \o more

\* the content fragment a direct child of the body contributes
Fragment(n) ==
  IF n.tag \in RemovedTags \cup BoilerplateTags \cup HeadingTags THEN <<>>
  ELSE IF n.tag \in {"ul", "ol"} THEN BulletLines(n.inner)
  ELSE VisibleText(n)

\* position 0 stands for the sentinel heading "Intro"
Starts(b) == {0} \cup {i \in DOMAIN b : b[i].tag \in HeadingTags}

\* the children between the heading at position s and the next heading
Segment(b, s) ==
  {i \in DOMAIN b : i > s /\ \A h \in Starts(b) : ~(s < h /\ h <= i)}

\* the non-empty fragments of the segment of s, in document order
SegmentLines(b, s) ==
  SelectSeq([i \in DOMAIN b |-> IF i \in Segment(b, s) THEN Fragment(b[i]) ELSE <<>>],
            LAMBDA l : l # <<>>)

RECURSIVE BlankLineJoin(_)
BlankLineJoin(lines) ==
  IF Len(lines) = 1 THEN lines[1]
  ELSE lines[1] \o <<"\n\n">> \o BlankLineJoin(Tail(lines))

RefSection(b, s) ==
  [heading |-> IF s = 0 THEN <<"Intro">> ELSE VisibleText(b[s]),
   content |-> BlankLineJoin(SegmentLines(b, s))]

\* the sections of the headings from position s on that have content
RECURSIVE RefFrom(_, _)
RefFrom(b, s) ==
  IF s > Len(b) THEN <<>>
  ELSE (IF s \in Starts(b) /\ SegmentLines(b, s) # <<>> THEN <<RefSection(b, s)>> ELSE <<>>)
         \o RefFrom(b, s + 1)

RefSections(b) == IF RefFrom(b, 0) = <<>> THEN EmptyIntro ELSE RefFrom(b, 0)

Returned == spc = "returned"

\* C11: extract_body_sections returns at least one section for every document,
\* so the record of the page holds a non-empty sections list; and when no
\* child of the body contributes a fragment (the traversal produces no
\* section) the result is exactly one section, headed "Intro", with empty
\* content.
C11_AtLeastOneSection ==
  Returned =>
    /\ Len(sections) >= 1
    /\ (\A i \in DOMAIN body : Fragment(body[i]) = <<>>) => sections = EmptyIntro

\* a body with a heading and no content falls back to the empty Intro
C11_Witness ==
  /\ Returned
  /\ \E i \in DOMAIN body : body[i].tag \in HeadingTags
  /\ \E i \in DOMAIN body : body[i].tag \in BoilerplateTags
  /\ sections = EmptyIntro

\* C15: the result equals the reference partition of the children at their
\* h1-h4 headings: one section per heading (and one for the sentinel "Intro"
\* before the first heading) whose segment has a non-empty fragment, in
\* document order, its content the non-empty fragments joined by a blank line;
\* a section headed "Intro" is the first one.
C15_EqualsReferenceFold ==
  Returned =>
    /\ sections = RefSections(body)
    /\ \A k \in DOMAIN sections : sections[k].heading = <<"Intro">> => k = 1

\* an Intro section followed by the section of a level-4 heading that has two
\* fragments, one of them a list
C15_Witness ==
  /\ Returned
  /\ Len(sections) = 2
  /\ sections[1].heading = <<"Intro">>
  /\ sections[2].heading = <<"B">>
  /\ "\n\n" \in Words(sections[2].content)
  /\ "\n" \in Words(sections[2].content)

\* the words inside the boilerplate containers of the universe: "N" and "F"
\* stand in a nav and a form that are children of the body, "M" in a nav
\* inside a div
InBoilerplate == {"N", "F", "M"}

InTopLevelBoilerplate == {"N", "F"}

\* C16 as stated: no text of a boilerplate container, whether a child of the
\* body or nested in a div, is in the content of a section.
C16_NoBoilerplateText ==
  Returned => \A k \in DOMAIN sections : Words(sections[k].content) \cap InBoilerplate = {}

\* C16, amended: no text of a boilerplate container that is a direct child of
\* the body is in the content (or the heading) of a section; the text of a
\* div includes the text of a boilerplate container nested in it.
C16_NoTopLevelBoilerplateText ==
  Returned =>
    /\ \A k \in DOMAIN sections :
         (Words(sections[k].content) \cup Words(sections[k].heading))
            \cap InTopLevelBoilerplate = {}
    /\ \A i \in DOMAIN body :
         body[i].tag = "div" =>
           \E k \in DOMAIN sections : Words(VisibleText(body[i])) \subseteq Words(sections[k].content)

\* a nav and a form next to a div with a nested nav
C16_Witness ==
  /\ Returned
  /\ \E i \in DOMAIN body : body[i].tag = "nav"
  /\ \E i \in DOMAIN body : body[i].tag = "form"
  /\ \E k \in DOMAIN sections : "M" \in Words(sections[k].content)

\* a heading whose segment has no fragment, and whose text no other heading has
DroppedHeading(b, i) ==
  /\ i \in Starts(b) \ {0}
  /\ SegmentLines(b, i) = <<>>
  /\ \A j \in Starts(b) \ {0, i} : VisibleText(b[j]) # VisibleText(b[i])

\* C18: every section has non-empty content, unless the result is the single
\* empty "Intro" section; a heading followed by no content before the next
\* heading or the end of the body gives no section, and its text is in no
\* heading and no content of the result.
C18_NoEmptySection ==
  Returned =>
    /\ sections = EmptyIntro \/ \A k \in DOMAIN sections : sections[k].content # <<>>
    /\ \A i \in DOMAIN body :
         DroppedHeading(body, i) =>
           \A k \in DOMAIN sections :
             /\ sections[k].heading # VisibleText(body[i])
             /\ Words(VisibleText(body[i])) \cap Words(sections[k].content) = {}

\* a heading is dropped between two sections that have content
C18_Witness ==
  /\ Returned
  /\ \E i \in DOMAIN body : DroppedHeading(body, i)
  /\ sections # EmptyIntro
  /\ \E i \in DOMAIN body : body[i].tag = "p" /\ body[i].text = <<>>

\* ------------------------------------------ properties of the two calls
BothReturned == run_asc.returned /\ run_desc.returned

UrlsOf(run) == {run.results[i].url : i \in DOMAIN run.results}

\* C17 as stated: on a fixed site with a fixed max_pages the set of URLs in
\* the results is the same whatever the order in which link sets are
\* enumerated.
C17_UrlSetOrderIndependent ==
  BothReturned => UrlsOf(run_asc) = UrlsOf(run_desc)

\* C17, amended: the number of records does not depend on the enumeration
\* order, and the set of URLs does not depend on it when a call returns with
\* the frontier empty; when max_pages ends the loop with URLs left in the
\* frontier, the order decides which pages are in the results.
C17_UrlSetOrderIndependentWhenExhausted ==
  BothReturned =>
    /\ Len(run_asc.results) = Len(run_desc.results)
    /\ (run_asc.to_visit = <<>> \/ run_desc.to_visit = <<>>)
         => UrlsOf(run_asc) = UrlsOf(run_desc)

\* one call returns with the frontier empty, the other with a URL left in it
C17_Witness ==
  /\ BothReturned
  /\ run_desc.to_visit = <<>>
  /\ run_asc.to_visit # <<>>
  /\ Len(run_asc.results) >= 2
====
